---- MODULE Spec2Model ----
(***************************************************************************)
(* The purchase dialogue of examples/purchase.rs: the handler schema, the  *)
(* six endpoints, the State and Command types, and the dispatcher, the     *)
(* dialogue storage and the command parser they are run by.                *)
(*                                                                         *)
(* Text is a sequence of one-character strings; a message without text and *)
(* a callback query without data carry NoText / NoData.                    *)
(***************************************************************************)
EXTENDS Integers, Sequences, FiniteSets, TLC

VARIABLES store,     \* InMemStorage<State>: chat id -> stored State, or Absent
          queue,     \* per chat: updates received and not yet dispatched
          tasks,     \* dispatches in flight (one record per update)
          received,  \* per chat: number of updates received
          finished,  \* per chat: the last dispatch that ended (None before the first)
          shadow,    \* per chat: the state a sequential run of its ended dispatches gives
          shutdown,  \* the ctrl-c handler has signalled the dispatcher to shut down
          text,      \* parser check: the input text
          parsed     \* parser check: the result of parsing it ("unparsed" before)

vars == <<store, queue, tasks, received, finished, shadow, text, parsed, shutdown>>

----------------------------------------------------------------------------
(* Bounds *)

MaxEvents == 3      \* updates received in one run
MaxQueue == 2       \* updates waiting per chat

Chats == {"c1", "c2"}

----------------------------------------------------------------------------
(* Text *)

NoText == <<"<none>">>
NoData == <<"<none>">>

UpperChars == <<"A", "C", "E", "H", "L", "N", "P", "R", "S", "T">>
LowerChars == <<"a", "c", "e", "h", "l", "n", "p", "r", "s", "t">>

ToLowerChar(ch) ==
    IF \E i \in 1..Len(UpperChars) : UpperChars[i] = ch
    THEN LowerChars[CHOOSE i \in 1..Len(UpperChars) : UpperChars[i] = ch]
    ELSE ch

ToUpperChar(ch) ==
    IF \E i \in 1..Len(LowerChars) : LowerChars[i] = ch
    THEN UpperChars[CHOOSE i \in 1..Len(LowerChars) : LowerChars[i] = ch]
    ELSE ch

ToLower(s) == [i \in 1..Len(s) |-> ToLowerChar(s[i])]

\* The first whitespace-separated word of s.
FirstWord(s) ==
    IF \E i \in 1..Len(s) : s[i] = " "
    THEN SubSeq(s, 1, (CHOOSE i \in 1..Len(s) :
                          s[i] = " " /\ \A j \in 1..(i - 1) : s[j] # " ") - 1)
    ELSE s

----------------------------------------------------------------------------
(* enum State, impl Default for State *)

Absent == [tag |-> "Absent"]
Start == [tag |-> "Start"]
ReceiveFullName == [tag |-> "ReceiveFullName"]
ReceiveProductChoice(full_name) == [tag |-> "ReceiveProductChoice", full_name |-> full_name]

DefaultStateBug == ReceiveFullName
DefaultState == Start

----------------------------------------------------------------------------
(* enum Command with #[command(rename = "lowercase")] *)

Commands == {"Help", "Start", "Cancel"}
NoCommand == "NoCommand"

VariantIdent(cmd) ==
    CASE cmd = "Help" -> <<"H", "e", "l", "p">>
      [] cmd = "Start" -> <<"S", "t", "a", "r", "t">>
      [] cmd = "Cancel" -> <<"C", "a", "n", "c", "e", "l">>

\* The derive without the rename attribute: the variant's identifier as written.
CommandNameNoRename(cmd) == VariantIdent(cmd)

CommandName(cmd) == ToLower(VariantIdent(cmd))

\* Command parser: the leading word, its "/" marker stripped, lowercased,
\* matched against the command names; anything else is no command.
Parse(t) ==
    IF t = NoText \/ Len(FirstWord(t)) = 0 \/ FirstWord(t)[1] # "/"
    THEN NoCommand
    ELSE LET name == ToLower(Tail(FirstWord(t)))
         IN  IF \E cmd \in Commands : CommandName(cmd) = name
             THEN CHOOSE cmd \in Commands : CommandName(cmd) = name
             ELSE NoCommand

----------------------------------------------------------------------------
(* Updates *)

Message(chat, t) == [kind |-> "Message", chat |-> chat, text |-> t, data |-> NoData]
CallbackQuery(chat, d) == [kind |-> "CallbackQuery", chat |-> chat, text |-> NoText, data |-> d]

TStart == <<"/", "s", "t", "a", "r", "t">>
THelp == <<"/", "h", "e", "l", "p">>
TCancel == <<"/", "c", "a", "n", "c", "e", "l">>
TName == <<"A", "l">>
DBanana == <<"B">>

Texts == {TStart, THelp, TCancel, TName}
Datas == {DBanana}

Updates(chat) ==
    {Message(chat, t) : t \in Texts \cup {NoText}}
        \cup {CallbackQuery(chat, d) : d \in Datas \cup {NoData}}

----------------------------------------------------------------------------
(* fn schema(): the handler tree, in declaration order *)

Node(pred, kids) == [pred |-> pred, ep |-> "none", kids |-> kids]
Endpoint(pred, ep) == [pred |-> pred, ep |-> ep, kids |-> <<>>]

\* help and start not nested under case![State::Start].
CommandHandlerFlat ==
    Node("filter_command",
         <<Endpoint("Command::Help", "help"),
           Endpoint("Command::Start", "start"),
           Endpoint("Command::Cancel", "cancel")>>)

CommandHandler ==
    Node("filter_command",
         <<Node("State::Start",
                <<Endpoint("Command::Help", "help"),
                  Endpoint("Command::Start", "start")>>),
           Endpoint("Command::Cancel", "cancel")>>)

\* receive_full_name without its case![State::ReceiveFullName].
MessageHandlerUngated ==
    Node("filter_message",
         <<CommandHandler,
           Endpoint("any", "receive_full_name"),
           Endpoint("any", "invalid_state")>>)

MessageHandler ==
    Node("filter_message",
         <<CommandHandler,
           Endpoint("State::ReceiveFullName", "receive_full_name"),
           Endpoint("any", "invalid_state")>>)

CallbackQueryHandler ==
    Node("filter_callback_query",
         <<Endpoint("State::ReceiveProductChoice", "receive_product_selection")>>)

\* The cancel branch nested under case![State::Start].
SchemaCancelInStart ==
    Node("enter",
         <<Node("filter_message",
                <<Node("filter_command",
                       <<Node("State::Start",
                              <<Endpoint("Command::Help", "help"),
                                Endpoint("Command::Start", "start"),
                                Endpoint("Command::Cancel", "cancel")>>)>>),
                  Endpoint("State::ReceiveFullName", "receive_full_name"),
                  Endpoint("any", "invalid_state")>>),
           CallbackQueryHandler>>)

Schema == Node("enter", <<MessageHandler, CallbackQueryHandler>>)

\* The filters and case! patterns of the schema, on an update and the
\* dialogue state that dialogue::enter loaded for it.
Holds(pred, ev, st) ==
    CASE pred = "enter" -> TRUE
      [] pred = "any" -> TRUE
      [] pred = "filter_message" -> ev.kind = "Message"
      [] pred = "filter_callback_query" -> ev.kind = "CallbackQuery"
      [] pred = "filter_command" -> ev.kind = "Message" /\ Parse(ev.text) # NoCommand
      [] pred = "Command::Help" -> Parse(ev.text) = "Help"
      [] pred = "Command::Start" -> Parse(ev.text) = "Start"
      [] pred = "Command::Cancel" -> Parse(ev.text) = "Cancel"
      [] pred = "State::Start" -> st.tag = "Start"
      [] pred = "State::ReceiveFullName" -> st.tag = "ReceiveFullName"
      [] pred = "State::ReceiveProductChoice" -> st.tag = "ReceiveProductChoice"

----------------------------------------------------------------------------
(* Evaluation of the tree: a node whose predicate fails continues with its *)
(* parent's next child; an endpoint runs its handler and breaks.           *)

RECURSIVE Eval(_, _, _)
RECURSIVE EvalKids(_, _, _)
RECURSIVE EvalKidsNoCommit(_, _, _)

Continue(calls) == [flow |-> "Continue", calls |-> calls]
Break(calls) == [flow |-> "Break", calls |-> calls]

Eval(node, ev, st) ==
    IF ~Holds(node.pred, ev, st) THEN Continue(<<>>)
    ELSE IF node.ep # "none" THEN Break(<<node.ep>>)
    ELSE EvalKids(node.kids, ev, st)

\* A branch that goes on to the later siblings after an endpoint has run.
EvalKidsNoCommit(kids, ev, st) ==
    IF kids = <<>> THEN Continue(<<>>)
    ELSE LET r == Eval(Head(kids), ev, st)
             rest == EvalKidsNoCommit(Tail(kids), ev, st)
         IN  [flow |-> IF r.flow = "Break" THEN "Break" ELSE rest.flow,
              calls |-> r.calls \o rest.calls]

EvalKids(kids, ev, st) ==
    IF kids = <<>> THEN Continue(<<>>)
    ELSE LET r == Eval(Head(kids), ev, st)
         IN  IF r.flow = "Break" THEN r
             ELSE LET rest == EvalKids(Tail(kids), ev, st)
                  IN  [flow |-> rest.flow, calls |-> r.calls \o rest.calls]

\* Dispatcher without a default handler: an unmatched update runs nothing.
RouteNoDefault(ev, st) == Eval(Schema, ev, st).calls

\* The handlers the dispatcher runs for an update: the endpoint the tree
\* reaches, or the dispatcher's default handler when it reaches none.
Route(ev, st) ==
    LET r == Eval(Schema, ev, st)
    IN  IF r.flow = "Continue" THEN <<"default_handler">> ELSE r.calls

----------------------------------------------------------------------------
(* The endpoints: what each awaits, in order. Every await is followed by ? *)

Send == [op |-> "send", arg |-> Absent]
Update(s) == [op |-> "update", arg |-> s]
Exit == [op |-> "exit", arg |-> Absent]

\* start with the update moved before the reply.
start_UpdateFirst(ev, st) == <<Update(ReceiveFullName), Send>>

\* start entering the state of the following step.
start_WrongState(ev, st) == <<Send, Update(ReceiveProductChoice(ev.text))>>

start(ev, st) == <<Send, Update(ReceiveFullName)>>

help(ev, st) == <<Send>>

\* cancel resetting the state before it removes the dialogue.
cancel_TwoWrites(ev, st) == <<Send, Update(Start), Exit>>

\* cancel that only replies.
cancel_NoExit(ev, st) == <<Send>>

cancel(ev, st) == <<Send, Exit>>

\* invalid_state leaving the dialogue.
invalid_state_Exit(ev, st) == <<Send, Exit>>

invalid_state(ev, st) == <<Send>>

\* receive_full_name storing the command word of the text instead of the text.
receive_full_name_Word(ev, st) ==
    IF ev.text # NoText
    THEN <<Send, Update(ReceiveProductChoice(ToLower(FirstWord(ev.text))))>>
    ELSE <<Send>>

\* receive_full_name taking the text without matching on its presence.
receive_full_name_NoMatch(ev, st) ==
    <<Send, Update(ReceiveProductChoice(ev.text))>>

\* receive_full_name with the update moved before the reply.
receive_full_name_UpdateFirst(ev, st) ==
    IF ev.text # NoText
    THEN <<Update(ReceiveProductChoice(ev.text)), Send>>
    ELSE <<Send>>

receive_full_name(ev, st) ==
    IF ev.text # NoText
    THEN <<Send, Update(ReceiveProductChoice(ev.text))>>
    ELSE <<Send>>

\* receive_product_selection with the exit outside the if let.
receive_product_selection_ExitAlways(ev, st) ==
    IF ev.data # NoData THEN <<Send, Exit>> ELSE <<Exit>>

\* receive_product_selection without the dialogue.exit().
receive_product_selection_NoExit(ev, st) ==
    IF ev.data # NoData THEN <<Send>> ELSE <<>>

receive_product_selection(ev, st) ==
    IF ev.data # NoData THEN <<Send, Exit>> ELSE <<>>

\* The dispatcher's default handler only logs the update.
default_handler(ev, st) == <<>>

Body(ep, ev, st) ==
    CASE ep = "start" -> start(ev, st)
      [] ep = "help" -> help(ev, st)
      [] ep = "cancel" -> cancel(ev, st)
      [] ep = "invalid_state" -> invalid_state(ev, st)
      [] ep = "receive_full_name" -> receive_full_name(ev, st)
      [] ep = "receive_product_selection" -> receive_product_selection(ev, st)
      [] ep = "default_handler" -> default_handler(ev, st)

----------------------------------------------------------------------------
(* Dialogue storage *)

\* One dialogue shared by every chat.
ChatIdOfShared(ev) == "c1"

\* dialogue::enter keys the dialogue by the chat of the update.
ChatIdOf(ev) == ev.chat

\* Storage::get_dialogue followed by unwrap_or_default.
GetOrDefault(s, id) == IF s[id] = Absent THEN DefaultState ELSE s[id]

\* Dialogue::update and Dialogue::exit on the storage s.
Apply(s, id, op) ==
    CASE op.op = "update" -> [s EXCEPT ![id] = op.arg]
      [] op.op = "exit" -> [s EXCEPT ![id] = Absent]
      [] op.op = "send" -> s

----------------------------------------------------------------------------
(* Dispatcher *)

None == [tag |-> "None"]

\* Updates of one chat dispatched without waiting for each other.
BusyNever(c) == FALSE

\* The worker of chat c is still running a dispatch.
Busy(c) == \E t \in tasks : t.chat = c

\* The sequential run of one update on storage s, whose handler fails at
\* its await number failedAt (0: no failure).
RECURSIVE RunOps(_, _, _, _, _)
RunOps(s, id, ops, i, failedAt) ==
    IF i > Len(ops) \/ i = failedAt THEN s
    ELSE RunOps(Apply(s, id, ops[i]), id, ops, i + 1, failedAt)

SeqStep(s, ev, failedAt) ==
    LET st == GetOrDefault(s, ev.chat)
        calls == Route(ev, st)
    IN  IF calls = <<>> THEN s
        ELSE RunOps(s, ev.chat, Body(calls[1], ev, st), 1, failedAt)

InitDialogue ==
    /\ store = [c \in Chats |-> Absent]
    /\ queue = [c \in Chats |-> <<>>]
    /\ tasks = {}
    /\ received = [c \in Chats |-> 0]
    /\ finished = [c \in Chats |-> None]
    /\ shadow = [c \in Chats |-> Absent]
    /\ shutdown = FALSE

Init ==
    /\ InitDialogue
    /\ text = NoText
    /\ parsed = "unparsed"

RECURSIVE Sum(_, _)
Sum(f, S) == IF S = {} THEN 0 ELSE LET x == CHOOSE y \in S : TRUE IN f[x] + Sum(f, S \ {x})

\* The worker of chat c has an update to take and is free to take it.
CanDispatch(c) == queue[c] # <<>> /\ ~Busy(c)

\* An update arrives and is queued for the worker of its chat.
Receive(c, ev) ==
    /\ ~shutdown
    /\ Sum(received, Chats) < MaxEvents
    /\ Len(queue[c]) < MaxQueue
    /\ queue' = [queue EXCEPT ![c] = Append(@, [id |-> received[c] + 1, ev |-> ev])]
    /\ received' = [received EXCEPT ![c] = @ + 1]
    /\ UNCHANGED <<store, tasks, finished, shadow, text, parsed, shutdown>>

\* The worker of chat c takes its next update: dialogue::enter loads the
\* state, the tree is evaluated and the endpoint it reaches is invoked.
Dispatch(c) ==
    /\ CanDispatch(c)
    /\ LET u == Head(queue[c])
           st == GetOrDefault(store, ChatIdOf(u.ev))
       IN  tasks' = tasks \cup
               {[id |-> u.id, chat |-> c, ev |-> u.ev, st |-> st,
                 calls |-> Route(u.ev, st), h |-> 1, pc |-> 1, writes |-> 0]}
    /\ queue' = [queue EXCEPT ![c] = Tail(@)]
    /\ UNCHANGED <<store, received, finished, shadow, text, parsed, shutdown>>

\* The storage fails while dialogue::enter loads the state of chat c: the
\* dispatch of the update is aborted before the tree is evaluated, and the
\* error is reported.
LoadFailed(c) ==
    /\ CanDispatch(c)
    /\ LET u == Head(queue[c])
       IN  finished' = [finished EXCEPT ![c] =
                           [id |-> u.id, ev |-> u.ev,
                            pre |-> GetOrDefault(store, ChatIdOf(u.ev)),
                            ran |-> <<>>, result |-> "StoreErr", failedAt |-> 0,
                            writes |-> 0, entry |-> store[c],
                            post |-> GetOrDefault(store, c)]]
    /\ queue' = [queue EXCEPT ![c] = Tail(@)]
    /\ UNCHANGED <<store, tasks, received, shadow, text, parsed, shutdown>>

\* The awaits of the handler that dispatch t is running.
Ops(t) == IF t.h <= Len(t.calls) THEN Body(t.calls[t.h], t.ev, t.st) ELSE <<>>

\* The dispatch t ends with the given result on storage s; the worker of
\* its chat is free again.
End(t, result, failedAt, s, w) ==
    /\ tasks' = tasks \ {t}
    /\ finished' = [finished EXCEPT ![t.chat] =
                        [id |-> t.id, ev |-> t.ev, pre |-> t.st,
                         ran |-> SubSeq(t.calls, 1, t.h), result |-> result,
                         failedAt |-> failedAt,
                         writes |-> w, entry |-> s[t.chat],
                         post |-> GetOrDefault(s, t.chat)]]
    /\ shadow' = [shadow EXCEPT ![t.chat] = SeqStep(shadow, t.ev, failedAt)[t.chat]]

\* The handler of t returns Ok(()): the dispatch ends (or, where a branch
\* did not stop at it, the next selected handler is invoked).
Returned(t, s, w) ==
    IF t.h < Len(t.calls)
    THEN /\ tasks' = (tasks \ {t}) \cup
                 {[t EXCEPT !.h = t.h + 1, !.pc = 1, !.writes = w]}
         /\ UNCHANGED <<finished, shadow>>
    ELSE End(t, "Ok", 0, s, w)

\* The handler's pending await completes: the reply is sent, or the
\* dialogue is written. After its last await the handler returns Ok(()).
AwaitOk(t) ==
    /\ t.pc <= Len(Ops(t))
    /\ store' = Apply(store, ChatIdOf(t.ev), Ops(t)[t.pc])
    /\ LET w == IF Ops(t)[t.pc].op = "send" THEN t.writes ELSE t.writes + 1
       IN  IF t.pc < Len(Ops(t))
           THEN /\ tasks' = (tasks \ {t}) \cup
                        {[t EXCEPT !.pc = t.pc + 1, !.writes = w]}
                /\ UNCHANGED <<finished, shadow>>
           ELSE Returned(t, store', w)
    /\ UNCHANGED <<queue, received, text, parsed, shutdown>>

\* The handler's pending await fails: ? returns the error and nothing is
\* written; the dispatcher's error handler logs it.
AwaitErr(t) ==
    /\ t.pc <= Len(Ops(t))
    /\ End(t, "Err", t.pc, store, t.writes)
    /\ UNCHANGED <<store, queue, received, text, parsed, shutdown>>

\* A handler that awaits nothing returns Ok(()).
Return(t) ==
    /\ t.h <= Len(t.calls)
    /\ Ops(t) = <<>>
    /\ Returned(t, store, t.writes)
    /\ UNCHANGED <<store, queue, received, text, parsed, shutdown>>

Next ==
    \/ \E c \in Chats : \E ev \in Updates(c) : Receive(c, ev)
    \/ \E c \in Chats : Dispatch(c)
    \/ \E t \in tasks : AwaitOk(t)
    \/ \E t \in tasks : AwaitErr(t)
    \/ \E t \in tasks : Return(t)

Spec == Init /\ [][Next]_vars

\* Ctrl-C: the dispatcher is told to shut down and stops taking updates
\* from the listener; the workers go on with what they hold.
Shutdown ==
    /\ ~shutdown
    /\ shutdown' = TRUE
    /\ UNCHANGED <<store, queue, tasks, received, finished, shadow, text, parsed>>

\* During shutdown a handler is dropped at its pending await: what it had
\* not yet awaited never runs.
Abandon(t) ==
    /\ shutdown
    /\ t.pc <= Len(Ops(t))
    /\ End(t, "Abandoned", t.pc, store, t.writes)
    /\ UNCHANGED <<store, queue, received, text, parsed, shutdown>>

\* The updates whose handlers write the dialogue.
WritingUpdates(chat) ==
    {Message(chat, t) : t \in {TStart, TCancel, TName}}
        \cup {CallbackQuery(chat, DBanana)}

NextShutdown ==
    \/ \E c \in Chats : \E ev \in WritingUpdates(c) : Receive(c, ev)
    \/ \E c \in Chats : Dispatch(c)
    \/ \E t \in tasks : AwaitOk(t)
    \/ \E t \in tasks : AwaitErr(t)
    \/ \E t \in tasks : Return(t)
    \/ Shutdown
    \/ \E t \in tasks : Abandon(t)

SpecShutdown == Init /\ [][NextShutdown]_vars

\* The dispatcher over a storage whose reads can fail as well.
NextStoreFail ==
    \/ Next
    \/ \E c \in Chats : LoadFailed(c)

SpecStoreFail == Init /\ [][NextStoreFail]_vars

----------------------------------------------------------------------------
(* The command parser on its own *)

CaseVariants(w) ==
    {[i \in 1..Len(w) |-> IF i \in S THEN ToUpperChar(w[i]) ELSE w[i]] :
        S \in SUBSET (1..Len(w))}

ParseInputs ==
    CaseVariants(TStart) \cup CaseVariants(THelp) \cup CaseVariants(TCancel)
        \cup {NoText, <<>>, <<"/">>, TName,
              <<"h", "e", "l", "l", "o">>,
              <<"s", "t", "a", "r", "t">>,
              <<"/", "s", "t", "o", "p">>,
              <<"/", "s", "t", "a", "r", "t", "s">>,
              <<"/", "s", "t", "a", "r">>,
              <<" ", "/", "s", "t", "a", "r", "t">>,
              <<"/", "S", "t", "a", "r", "t", " ", "x">>,
              <<"h", "i", " ", "/", "h", "e", "l", "p">>}

InitParse ==
    /\ InitDialogue
    /\ text \in ParseInputs
    /\ parsed = "unparsed"

\* BotCommands::parse on the text of a message.
ParseText ==
    /\ parsed = "unparsed"
    /\ parsed' = Parse(text)
    /\ UNCHANGED <<store, queue, tasks, received, finished, shadow, text, shutdown>>

NextParse == ParseText

SpecParse == InitParse /\ [][NextParse]_vars

----------------------------------------------------------------------------
(* Properties *)

Handlers ==
    {"help", "start", "cancel", "invalid_state", "receive_full_name",
     "receive_product_selection", "default_handler"}

Ended(c) == finished[c] # None

IsCommand(ev, cmd) == ev.kind = "Message" /\ Parse(ev.text) = cmd

\* C1: every update is handled. Whatever the kind of the update and the
\* state of its dialogue, the dispatch invokes a handler, and when the tree
\* reaches no endpoint (a callback query while the state is Start or
\* ReceiveFullName) that handler is the dispatcher's default handler.
C1_EveryUpdateHandled ==
    /\ \A t \in tasks :
          /\ Len(t.calls) >= 1
          /\ \A i \in 1..Len(t.calls) : t.calls[i] \in Handlers
          /\ (t.ev.kind = "CallbackQuery" /\ t.st.tag \in {"Start", "ReceiveFullName"})
                => t.calls = <<"default_handler">>
    /\ \A c \in Chats :
          Ended(c) => /\ Len(finished[c].ran) >= 1
                      /\ finished[c].result \in {"Ok", "Err"}

C1_Witness ==
    \E c \in Chats :
        /\ Ended(c)
        /\ finished[c].ev.kind = "CallbackQuery"
        /\ finished[c].pre = ReceiveFullName
        /\ finished[c].ran = <<"default_handler">>

\* The endpoints of a tree in depth-first declaration order, each with the
\* predicates on its path.
RECURSIVE Paths(_, _)
RECURSIVE PathsOfKids(_, _)
Paths(node, above) ==
    IF node.ep # "none"
    THEN <<[ep |-> node.ep, preds |-> above \cup {node.pred}]>>
    ELSE PathsOfKids(node.kids, above \cup {node.pred})
PathsOfKids(kids, above) ==
    IF kids = <<>> THEN <<>>
    ELSE Paths(Head(kids), above) \o PathsOfKids(Tail(kids), above)

PathHolds(p, ev, st) == \A q \in p.preds : Holds(q, ev, st)

SchemaPaths == Paths(Schema, {})

FirstMatch(ev, st) ==
    LET ps == SchemaPaths
        ok == {i \in 1..Len(ps) : PathHolds(ps[i], ev, st)}
    IN  IF ok = {} THEN "default_handler"
        ELSE ps[CHOOSE i \in ok : \A j \in ok : i <= j].ep

\* C2: branch selection is a committed first match. The handler invoked for
\* an update is the endpoint of the first path, in depth-first declaration
\* order, all of whose predicates hold, and no other endpoint is invoked for
\* the same update; a /cancel message in ReceiveFullName runs cancel only.
C2_CommittedFirstMatch ==
    /\ \A t \in tasks :
          /\ t.calls = <<FirstMatch(t.ev, t.st)>>
          /\ (IsCommand(t.ev, "Cancel") /\ t.st = ReceiveFullName)
                => t.calls = <<"cancel">>
    /\ \A c \in Chats : Ended(c) => Len(finished[c].ran) = 1

C2_Witness ==
    \E c \in Chats :
        /\ Ended(c)
        /\ IsCommand(finished[c].ev, "Cancel")
        /\ finished[c].pre = ReceiveFullName
        /\ finished[c].ran = <<"cancel">>

TasksOf(c) == {t \in tasks : t.chat = c}

LastId(c) == IF Ended(c) THEN finished[c].id ELSE 0

\* C3: the updates of one chat are dispatched in arrival order and never
\* overlap. At most one dispatch of a chat is in flight; it is the update
\* that arrived next after the last ended one, the updates still queued
\* follow it in arrival order, and the state it was routed on is the state
\* the previous dispatch left (the second of two /start messages is not
\* routed as in state Start).
C3_SerialPerChat ==
    \A c \in Chats :
        /\ Cardinality(TasksOf(c)) <= 1
        /\ \A t \in TasksOf(c) :
              /\ t.id = LastId(c) + 1
              /\ t.st = (IF Ended(c) THEN finished[c].post ELSE DefaultState)
              /\ (/\ Ended(c)
                  /\ finished[c].pre = Start
                  /\ IsCommand(finished[c].ev, "Start")
                  /\ finished[c].result = "Ok"
                  /\ IsCommand(t.ev, "Start")) => t.calls # <<"start">>
        /\ \A i \in 1..Len(queue[c]) :
              queue[c][i].id = LastId(c) + Cardinality(TasksOf(c)) + i
        /\ received[c] = LastId(c) + Cardinality(TasksOf(c)) + Len(queue[c])

C3_Witness ==
    \E c \in Chats : \E t \in TasksOf(c) :
        /\ Ended(c)
        /\ finished[c].pre = Start
        /\ IsCommand(finished[c].ev, "Start")
        /\ finished[c].result = "Ok"
        /\ IsCommand(t.ev, "Start")
        /\ t.st = ReceiveFullName
        /\ t.calls = <<"receive_full_name">>

\* C4: a handler that returns an error leaves the stored state of its chat
\* as it was before the update, whichever handler it is and whichever of
\* its awaits (the reply, the dialogue update or exit) failed; and the
\* failure stops no later dispatch: the failed dispatch has left its worker,
\* and the worker of every chat with queued updates and no dispatch in
\* flight can take its next update.
C4_ErrorLeavesState ==
    \A c \in Chats :
        /\ (Ended(c) /\ finished[c].result = "Err")
              => /\ finished[c].post = finished[c].pre
                 /\ finished[c].writes = 0
                 /\ \A t \in TasksOf(c) : t.id = finished[c].id + 1
                 /\ TasksOf(c) = {} => GetOrDefault(store, c) = finished[c].pre
        /\ (queue[c] # <<>> /\ TasksOf(c) = {}) => CanDispatch(c)

\* The dialogue update of start or receive_full_name failed, and a later
\* update of the same chat is being dispatched.
C4_Witness ==
    \E c \in Chats : \E t \in TasksOf(c) :
        /\ Ended(c)
        /\ finished[c].result = "Err"
        /\ finished[c].ran \in {<<"start">>, <<"receive_full_name">>}
        /\ finished[c].failedAt = 2
        /\ finished[c].post = finished[c].pre
        /\ t.id = finished[c].id + 1

\* C5: a Start command dispatched in state Start, whose handler succeeds,
\* sets the state of its chat to ReceiveFullName by exactly one write, and
\* no step of that dispatch changes the stored state of another chat.
C5_StartTransition ==
    /\ [](\A c \in Chats :
            (/\ Ended(c)
             /\ finished[c].pre = Start
             /\ IsCommand(finished[c].ev, "Start")
             /\ finished[c].result = "Ok")
                => /\ finished[c].ran = <<"start">>
                   /\ finished[c].writes = 1
                   /\ finished[c].entry = ReceiveFullName
                   /\ finished[c].post = ReceiveFullName)
    /\ [][\A t \in tasks :
            (t.st = Start /\ IsCommand(t.ev, "Start") /\ (AwaitOk(t) \/ AwaitErr(t)))
                => \A d \in Chats \ {t.chat} : store'[d] = store[d]]_vars

\* start has run to its end in one chat while another chat holds a state.
C5_Witness ==
    \E c \in Chats : \E d \in Chats \ {c} :
        /\ Ended(c)
        /\ finished[c].pre = Start
        /\ IsCommand(finished[c].ev, "Start")
        /\ finished[c].result = "Ok"
        /\ store[c] = ReceiveFullName
        /\ store[d] # Absent

\* C6: a message with text that is no command, dispatched in state
\* ReceiveFullName with its handler succeeding, sets the state to
\* ReceiveProductChoice with full_name the text as received.
C6_FullNameStored ==
    \A c \in Chats :
        (/\ Ended(c)
         /\ finished[c].pre = ReceiveFullName
         /\ finished[c].ev.kind = "Message"
         /\ finished[c].ev.text # NoText
         /\ Parse(finished[c].ev.text) = NoCommand
         /\ finished[c].result = "Ok")
            => /\ finished[c].ran = <<"receive_full_name">>
               /\ finished[c].entry = ReceiveProductChoice(finished[c].ev.text)
               /\ finished[c].post = ReceiveProductChoice(finished[c].ev.text)

C6_Witness ==
    \E c \in Chats :
        /\ Ended(c)
        /\ finished[c].pre = ReceiveFullName
        /\ finished[c].ev = Message(c, TName)
        /\ finished[c].result = "Ok"
        /\ store[c] = ReceiveProductChoice(TName)

\* C7: a callback query with data, dispatched in state ReceiveProductChoice
\* with its handler succeeding, exits the dialogue: the entry of the chat is
\* removed from the storage and a get for the chat returns Start.
C7_SelectionExits ==
    \A c \in Chats :
        (/\ Ended(c)
         /\ finished[c].pre.tag = "ReceiveProductChoice"
         /\ finished[c].ev.kind = "CallbackQuery"
         /\ finished[c].ev.data # NoData
         /\ finished[c].result = "Ok")
            => /\ finished[c].ran = <<"receive_product_selection">>
               /\ finished[c].entry = Absent
               /\ finished[c].post = Start
               /\ (TasksOf(c) = {} => GetOrDefault(store, c) = Start)

C7_Witness ==
    \E c \in Chats :
        /\ Ended(c)
        /\ finished[c].pre = ReceiveProductChoice(TName)
        /\ finished[c].ev = CallbackQuery(c, DBanana)
        /\ finished[c].result = "Ok"
        /\ store[c] = Absent

\* C8: chats are isolated. Under every interleaving of the dispatches of
\* distinct chats, the state a dispatch is routed on and the state stored
\* for its chat at each of its steps are those of a sequential run of that
\* chat's updates alone, and so is the state stored when it has ended.
C8_Isolation ==
    \A c \in Chats :
        /\ TasksOf(c) = {} => store[c] = shadow[c]
        /\ \A t \in TasksOf(c) :
              /\ t.st = GetOrDefault(shadow, c)
              /\ store[c] = RunOps(shadow, c, Ops(t), 1, t.pc)[c]

\* Two chats have dispatches in flight at once, both past their reply, one
\* of them in a dialogue that an earlier update of its chat started.
C8_Witness ==
    \E t1 \in tasks : \E t2 \in tasks :
        /\ t1.chat # t2.chat
        /\ t1.pc = 2
        /\ t2.pc = 2
        /\ Ended(t1.chat)
        /\ t1.st = ReceiveFullName
        /\ t2.st = Start

StoredStates ==
    {Absent, Start, ReceiveFullName} \cup {ReceiveProductChoice(t) : t \in Texts}

\* C9: every chat has exactly one state, absence from the storage standing
\* for Start. An update dispatched while its chat has no entry (no update
\* before it, or the entry removed by an exit) is routed on state Start.
C9_AbsentIsStart ==
    /\ DOMAIN store = Chats
    /\ \A c \in Chats :
          /\ store[c] \in StoredStates
          /\ \A t \in TasksOf(c) :
                /\ (t.id = 1 \/ (Ended(c) /\ finished[c].entry = Absent))
                      => /\ t.st = Start
                         /\ t.calls = <<FirstMatch(t.ev, Start)>>
                /\ (t.pc = 1 /\ store[c] = Absent) => t.st = Start

\* The update after an exit is dispatched.
C9_Witness ==
    \E c \in Chats : \E t \in TasksOf(c) :
        /\ Ended(c)
        /\ finished[c].ran = <<"cancel">>
        /\ finished[c].pre = ReceiveFullName
        /\ finished[c].result = "Ok"
        /\ store[c] = Absent
        /\ t.st = Start

Slash(w) == <<"/">> \o w

\* C10: command parsing is total and ignores the letter case of the
\* command: every text parses to a command or to none; "/start", "/help"
\* and "/cancel" in any letter case parse to Start, Help and Cancel; texts
\* that differ only in letter case parse alike; "hello" parses to none.
C10_ParseCaseInsensitive ==
    parsed # "unparsed" =>
        /\ parsed \in Commands \cup {NoCommand}
        /\ \A cmd \in Commands :
              text \in CaseVariants(Slash(ToLower(VariantIdent(cmd)))) => parsed = cmd
        /\ \A u \in ParseInputs \ {NoText} :
              (text # NoText /\ ToLower(u) = ToLower(text)) => Parse(u) = parsed
        /\ text = <<"h", "e", "l", "l", "o">> => parsed = NoCommand
        /\ text = NoText => parsed = NoCommand

C10_Witness ==
    /\ text = <<"/", "S", "T", "A", "R", "T">>
    /\ parsed = "Start"

\* The await of the handler at which an ended dispatch failed is a write
\* to the storage.
FailedAtWrite(f) ==
    /\ f.result = "Err"
    /\ Body(f.ran[1], f.ev, f.pre)[f.failedAt].op \in {"update", "exit"}

\* C12: a storage failure aborts the dispatch, is reported and commits
\* nothing. A failed load ends the dispatch with a storage error before any
\* handler runs; a failed update or exit ends it with the handler's error;
\* in both cases nothing was written and the state of the chat is the one
\* from before the update; and every update taken from the queue is either
\* in flight or recorded as ended.
C12_StoreFailureAborts ==
    \A c \in Chats :
        /\ (Ended(c) /\ finished[c].result = "StoreErr")
              => /\ finished[c].ran = <<>>
                 /\ finished[c].writes = 0
                 /\ finished[c].post = finished[c].pre
                 /\ TasksOf(c) = {} => GetOrDefault(store, c) = finished[c].pre
        /\ (Ended(c) /\ FailedAtWrite(finished[c]))
              => /\ finished[c].writes = 0
                 /\ finished[c].post = finished[c].pre
                 /\ TasksOf(c) = {} => GetOrDefault(store, c) = finished[c].pre
        /\ TasksOf(c) = {} => store[c] = shadow[c]
        /\ received[c] = LastId(c) + Cardinality(TasksOf(c)) + Len(queue[c])

\* In one chat the load failed in state ReceiveFullName; in the other the
\* exit of cancel failed.
C12_Witness ==
    \E c \in Chats : \E d \in Chats \ {c} :
        /\ Ended(c)
        /\ finished[c].result = "StoreErr"
        /\ finished[c].pre = ReceiveFullName
        /\ store[c] = ReceiveFullName
        /\ Ended(d)
        /\ finished[d].ran = <<"cancel">>
        /\ FailedAtWrite(finished[d])

\* C13: after the shutdown signal no further update is accepted, and the
\* signal is never withdrawn; every dispatch ends completed (Ok or Err) or
\* abandoned; an abandoned one has written nothing and leaves the state of
\* its chat as before the update, and whenever a chat has no dispatch in
\* flight its stored state is that of its ended dispatches run one after
\* the other, each to its end or to the await where it stopped: no state is
\* partially committed.
C13_ShutdownCommitsWhole ==
    /\ [][shutdown => (shutdown' /\ received' = received)]_vars
    /\ [](\A c \in Chats :
            /\ Ended(c) => finished[c].result \in {"Ok", "Err", "Abandoned"}
            /\ (Ended(c) /\ finished[c].result = "Abandoned")
                  => /\ finished[c].writes = 0
                     /\ finished[c].post = finished[c].pre
            /\ TasksOf(c) = {} => store[c] = shadow[c])

\* After the signal one chat's handler was dropped while it awaited its
\* dialogue update, and the other chat's dispatch ran to completion.
C13_Witness ==
    \E c \in Chats : \E d \in Chats \ {c} :
        /\ shutdown
        /\ Ended(c)
        /\ finished[c].result = "Abandoned"
        /\ finished[c].ran = <<"receive_full_name">>
        /\ finished[c].failedAt = 2
        /\ store[c] = ReceiveFullName
        /\ Ended(d)
        /\ finished[d].result = "Ok"
        /\ store[d] = ReceiveFullName

\* C14: the Cancel command is handled in every state. A message that
\* parses as Cancel runs cancel whatever the state of its chat; when cancel
\* succeeds the entry of the chat is removed, so that a get returns Start
\* and the next update of the chat is routed on Start; from Start the
\* state is Start afterwards whatever the outcome.
C14_CancelEverywhere ==
    \A c \in Chats :
        /\ \A t \in TasksOf(c) : IsCommand(t.ev, "Cancel") => t.calls = <<"cancel">>
        /\ (Ended(c) /\ IsCommand(finished[c].ev, "Cancel"))
              => /\ finished[c].ran = <<"cancel">>
                 /\ finished[c].pre = Start => finished[c].post = Start
                 /\ finished[c].result = "Ok"
                       => /\ finished[c].entry = Absent
                          /\ finished[c].post = Start
                          /\ TasksOf(c) = {} => store[c] = Absent
                          /\ \A t \in TasksOf(c) :
                                /\ t.st = Start
                                /\ t.calls = <<FirstMatch(t.ev, Start)>>

C14_Witness ==
    \E c \in Chats :
        /\ Ended(c)
        /\ IsCommand(finished[c].ev, "Cancel")
        /\ finished[c].pre = ReceiveProductChoice(TName)
        /\ finished[c].result = "Ok"
        /\ store[c] = Absent

IsHelpOrStart(ev) == IsCommand(ev, "Help") \/ IsCommand(ev, "Start")

\* C15: a Help or Start command that arrives while the state is not Start
\* reaches no endpoint of the command subtree and is routed by the branches
\* after it: in ReceiveFullName to receive_full_name, which stores the
\* command text as full_name (the state becomes ReceiveProductChoice), and
\* in ReceiveProductChoice to invalid_state, which leaves the state as it is.
C15_CommandFallsThrough ==
    \A c \in Chats :
        /\ \A t \in TasksOf(c) :
              IsHelpOrStart(t.ev)
                  => /\ t.st = ReceiveFullName => t.calls = <<"receive_full_name">>
                     /\ t.st.tag = "ReceiveProductChoice" => t.calls = <<"invalid_state">>
        /\ (Ended(c) /\ IsHelpOrStart(finished[c].ev) /\ finished[c].pre = ReceiveFullName)
              => /\ finished[c].ran = <<"receive_full_name">>
                 /\ finished[c].result = "Ok"
                       => finished[c].post = ReceiveProductChoice(finished[c].ev.text)
        /\ (/\ Ended(c)
            /\ IsHelpOrStart(finished[c].ev)
            /\ finished[c].pre.tag = "ReceiveProductChoice")
              => /\ finished[c].ran = <<"invalid_state">>
                 /\ finished[c].post = finished[c].pre

C15_Witness ==
    \E c \in Chats :
        /\ Ended(c)
        /\ finished[c].ev = Message(c, THelp)
        /\ finished[c].pre = ReceiveFullName
        /\ finished[c].ran = <<"receive_full_name">>
        /\ finished[c].result = "Ok"
        /\ store[c] = ReceiveProductChoice(THelp)

\* C16: the stored state of a chat changes only by one of three steps, each
\* made by the dispatch in flight for that chat: from Start to
\* ReceiveFullName by a Start command routed on Start; from ReceiveFullName
\* to ReceiveProductChoice holding the text of a message with text; from any
\* state to no entry by a Cancel command, or by a callback query with data
\* in ReceiveProductChoice. So ReceiveProductChoice is never entered from
\* Start, nor ReceiveFullName from ReceiveProductChoice.
C16_StepsOnly ==
    [][\A c \in Chats :
          store'[c] # store[c] =>
              \E t \in TasksOf(c) :
                  \/ /\ store[c] = Absent
                     /\ store'[c] = ReceiveFullName
                     /\ IsCommand(t.ev, "Start")
                     /\ t.st = Start
                  \/ /\ store[c] = ReceiveFullName
                     /\ t.ev.kind = "Message"
                     /\ t.ev.text # NoText
                     /\ store'[c] = ReceiveProductChoice(t.ev.text)
                  \/ /\ store'[c] = Absent
                     /\ \/ IsCommand(t.ev, "Cancel")
                        \/ /\ t.ev.kind = "CallbackQuery"
                           /\ t.ev.data # NoData
                           /\ store[c].tag = "ReceiveProductChoice"]_vars

\* A chat has gone through all three steps.
C16_Witness ==
    \E c \in Chats :
        /\ Ended(c)
        /\ finished[c].id = 3
        /\ finished[c].pre.tag = "ReceiveProductChoice"
        /\ finished[c].writes = 1
        /\ store[c] = Absent
        /\ shadow[c] = Absent

QuietHandlers == {<<"help">>, <<"invalid_state">>}

\* C17: help and invalid_state write nothing. The Help command in Start
\* runs help; a message that is no command in Start, and any message other
\* than Cancel in ReceiveProductChoice, runs invalid_state; a dispatch that
\* runs help or invalid_state leaves the state of its chat, full_name
\* included, as it was, and none of its steps changes the storage at all.
C17_QuietHandlers ==
    /\ [](\A c \in Chats :
            /\ \A t \in TasksOf(c) :
                  /\ (IsCommand(t.ev, "Help") /\ t.st = Start) => t.calls = <<"help">>
                  /\ (/\ t.ev.kind = "Message"
                      /\ Parse(t.ev.text) = NoCommand
                      /\ t.st = Start) => t.calls = <<"invalid_state">>
                  /\ (/\ t.ev.kind = "Message"
                      /\ ~IsCommand(t.ev, "Cancel")
                      /\ t.st.tag = "ReceiveProductChoice") => t.calls = <<"invalid_state">>
                  /\ t.calls \in QuietHandlers
                        => /\ t.writes = 0
                           /\ GetOrDefault(store, c) = t.st
            /\ (Ended(c) /\ finished[c].ran \in QuietHandlers)
                  => /\ finished[c].writes = 0
                     /\ finished[c].post = finished[c].pre)
    /\ [][\A t \in tasks :
            (t.calls \in QuietHandlers /\ (AwaitOk(t) \/ AwaitErr(t)))
                => store' = store]_vars

C17_Witness ==
    \E c \in Chats :
        /\ Ended(c)
        /\ finished[c].ev = Message(c, THelp)
        /\ finished[c].pre = ReceiveProductChoice(TName)
        /\ finished[c].ran = <<"invalid_state">>
        /\ finished[c].result = "Ok"
        /\ store[c] = ReceiveProductChoice(TName)

C19_NoDataNoExit ==
    \A c \in Chats :
        /\ (/\ Ended(c)
            /\ finished[c].ev = CallbackQuery(c, NoData)
            /\ finished[c].pre.tag = "ReceiveProductChoice")
              => /\ finished[c].ran = <<"receive_product_selection">>
                 /\ finished[c].result = "Ok"
                 /\ finished[c].writes = 0
                 /\ finished[c].entry = finished[c].pre
        /\ (/\ Ended(c)
            /\ finished[c].pre.tag = "ReceiveProductChoice"
            /\ finished[c].entry = Absent)
              => \/ IsCommand(finished[c].ev, "Cancel")
                 \/ /\ finished[c].ev.kind = "CallbackQuery"
                    /\ finished[c].ev.data # NoData

C19_Witness ==
    \E c \in Chats :
        /\ Ended(c)
        /\ finished[c].ev = CallbackQuery(c, NoData)
        /\ finished[c].pre = ReceiveProductChoice(TName)
        /\ finished[c].result = "Ok"
        /\ store[c] = ReceiveProductChoice(TName)

====
